---- MODULE Spec2Model ----
(***************************************************************************)
(* ucitap2json: the transcript parser of src/src/ucitap2json.rs.           *)
(*                                                                         *)
(* Text is modelled as text: a transcript line, a token, a position        *)
(* description and a record field are TLA+ strings, taken apart with Len   *)
(* and SubSeq and built with \o, the way the Rust code slices and joins    *)
(* them.  Option<T> is the record [some |-> FALSE] (None) or               *)
(* [some |-> TRUE, v |-> x] (Some(x)).                                     *)
(*                                                                         *)
(* The chess rules come from the shakmaty crate, which is not part of the  *)
(* repository.  The section "rules capability" models the calls the        *)
(* program makes into it (Chess::default, legal_moves, play_unchecked,     *)
(* San::from_move, Fen parsing and formatting) at the call sites.          *)
(***************************************************************************)
EXTENDS Integers, Sequences, FiniteSets, TLC

(***************************************************************************)
(* Option<T>                                                               *)
(***************************************************************************)
None == [some |-> FALSE]
Some(x) == [some |-> TRUE, v |-> x]

(***************************************************************************)
(* str: the string operations of the Rust standard library the program     *)
(* uses.                                                                   *)
(***************************************************************************)
Ch(s, i) == SubSeq(s, i, i)

starts_with(s, p) == Len(s) >= Len(p) /\ SubSeq(s, 1, Len(p)) = p

\* str::strip_prefix: the rest of s after prefix p, or None.
strip_prefix(s, p) ==
    IF starts_with(s, p) THEN Some(SubSeq(s, Len(p) + 1, Len(s))) ELSE None

\* str::find: the 0-based offset of the first occurrence of p in s, or -1.
RECURSIVE FindFrom(_, _, _)
FindFrom(s, p, i) ==
    IF i + Len(p) > Len(s) THEN -1
    ELSE IF SubSeq(s, i + 1, i + Len(p)) = p THEN i
    ELSE FindFrom(s, p, i + 1)

find(s, p) == FindFrom(s, p, 0)

IsWhitespace(c) == c = " " \/ c = "\t"

\* str::split_whitespace, collected: the maximal runs of non-whitespace.
RECURSIVE SplitFrom(_, _, _, _)
SplitFrom(s, i, cur, acc) ==
    IF i > Len(s) THEN (IF cur = "" THEN acc ELSE Append(acc, cur))
    ELSE IF IsWhitespace(Ch(s, i))
         THEN SplitFrom(s, i + 1, "", IF cur = "" THEN acc ELSE Append(acc, cur))
         ELSE SplitFrom(s, i + 1, cur \o Ch(s, i), acc)

split_whitespace(s) == SplitFrom(s, 1, "", <<>>)

\* [&str]::join(" ")
RECURSIVE JoinFrom(_, _)
JoinFrom(parts, i) ==
    IF i > Len(parts) THEN ""
    ELSE IF i = Len(parts) THEN parts[i]
    ELSE parts[i] \o " " \o JoinFrom(parts, i + 1)

join(parts) == JoinFrom(parts, 1)

\* str::trim
RECURSIVE TrimStart(_)
TrimStart(s) ==
    IF Len(s) > 0 /\ IsWhitespace(Ch(s, 1)) THEN TrimStart(SubSeq(s, 2, Len(s))) ELSE s

RECURSIVE TrimEnd(_)
TrimEnd(s) ==
    IF Len(s) > 0 /\ IsWhitespace(Ch(s, Len(s)))
    THEN TrimEnd(SubSeq(s, 1, Len(s) - 1)) ELSE s

trim(s) == TrimEnd(TrimStart(s))

\* The position (1-based) of character c in the string alphabet, or 0.
RECURSIVE IndexIn(_, _, _)
IndexIn(alphabet, c, i) ==
    IF i > Len(alphabet) THEN 0
    ELSE IF Ch(alphabet, i) = c THEN i
    ELSE IndexIn(alphabet, c, i + 1)

IsDigit(c) == IndexIn("0123456789", c, 1) > 0

RECURSIVE AllDigitsFrom(_, _)
AllDigitsFrom(s, i) ==
    i > Len(s) \/ (IsDigit(Ch(s, i)) /\ AllDigitsFrom(s, i + 1))

AllDigits(s) == Len(s) > 0 /\ AllDigitsFrom(s, 1)

\* A parsed integer is kept as its canonical decimal numeral ("0", "25",
\* "-25"): u64 is wider than the integers of the model checker.
RECURSIVE StripZeros(_)
StripZeros(s) ==
    IF Len(s) > 1 /\ Ch(s, 1) = "0" THEN StripZeros(SubSeq(s, 2, Len(s))) ELSE s

\* a <= b for digit strings of the same length.
RECURSIVE LexLE(_, _, _)
LexLE(a, b, i) ==
    IF i > Len(a) THEN TRUE
    ELSE IF Ch(a, i) = Ch(b, i) THEN LexLE(a, b, i + 1)
    ELSE IndexIn("0123456789", Ch(a, i), 1) < IndexIn("0123456789", Ch(b, i), 1)

\* a <= b for canonical numerals without sign.
NumeralLE(a, b) == Len(a) < Len(b) \/ (Len(a) = Len(b) /\ LexLE(a, b, 1))

U32Max == "4294967295"
U64Max == "18446744073709551615"
I32Max == "2147483647"
I32MinMagnitude == "2147483648"

\* <u32 | u64 as FromStr>::from_str(s).ok(): an optional "+", then digits,
\* within the type's range; a "-" is no digit of an unsigned type.
parse_unsigned(s, max) ==
    LET digits == IF starts_with(s, "+") THEN SubSeq(s, 2, Len(s)) ELSE s
    IN  IF AllDigits(digits) /\ NumeralLE(StripZeros(digits), max)
        THEN Some(StripZeros(digits))
        ELSE None

\* <i32 as FromStr>::from_str(s).ok(): an optional sign, then digits, within
\* -2147483648 ..= 2147483647.
parse_i32(s) ==
    LET neg    == starts_with(s, "-")
        digits == IF neg \/ starts_with(s, "+") THEN SubSeq(s, 2, Len(s)) ELSE s
        n      == StripZeros(digits)
    IN  IF ~AllDigits(digits) THEN None
        ELSE IF neg
             THEN (IF NumeralLE(n, I32MinMagnitude)
                   THEN Some(IF n = "0" THEN "0" ELSE "-" \o n) ELSE None)
             ELSE (IF NumeralLE(n, I32Max) THEN Some(n) ELSE None)

(***************************************************************************)
(* Rules capability (shakmaty): squares, pieces, positions.                *)
(* A square is 0 .. 63, a1 = 0, b1 = 1, ..., h8 = 63.  A piece is its      *)
(* letter in a position description (white in capitals), "." an empty      *)
(* square.  A role is the capital letter.                                  *)
(***************************************************************************)
Squares == 0 .. 63
FILES == "abcdefgh"
RANKS == "12345678"
WHITE_PIECES == "PNBRQK"
BLACK_PIECES == "pnbrqk"

FileOf(sq) == sq % 8
RankOf(sq) == sq \div 8
Sq(f, r) == r * 8 + f
OnBoard(f, r) == f >= 0 /\ f <= 7 /\ r >= 0 /\ r <= 7
SquareName(sq) == Ch(FILES, FileOf(sq) + 1) \o Ch(RANKS, RankOf(sq) + 1)

\* <Square as FromStr>::from_str(s).ok() for a two-character slice.
parse_square(s) ==
    IF Len(s) = 2 /\ IndexIn(FILES, Ch(s, 1), 1) > 0 /\ IndexIn(RANKS, Ch(s, 2), 1) > 0
    THEN Some(Sq(IndexIn(FILES, Ch(s, 1), 1) - 1, IndexIn(RANKS, Ch(s, 2), 1) - 1))
    ELSE None

IsWhitePiece(p) == p \in {"P", "N", "B", "R", "Q", "K"}
IsBlackPiece(p) == p \in {"p", "n", "b", "r", "q", "k"}
ColorOf(p) == IF IsWhitePiece(p) THEN "w" ELSE IF IsBlackPiece(p) THEN "b" ELSE "-"
RoleOf(p) == IF IsBlackPiece(p) THEN Ch(WHITE_PIECES, IndexIn(BLACK_PIECES, p, 1)) ELSE p
PieceOf(color, role) ==
    IF color = "w" THEN role ELSE Ch(BLACK_PIECES, IndexIn(WHITE_PIECES, role, 1))
Other(color) == IF color = "w" THEN "b" ELSE "w"

KnightDeltas ==
    {<<1, 2>>, <<2, 1>>, <<2, -1>>, <<1, -2>>, <<-1, -2>>, <<-2, -1>>, <<-2, 1>>, <<-1, 2>>}
RookDirs == {<<1, 0>>, <<-1, 0>>, <<0, 1>>, <<0, -1>>}
BishopDirs == {<<1, 1>>, <<1, -1>>, <<-1, 1>>, <<-1, -1>>}
KingDeltas == RookDirs \cup BishopDirs

StepTargets(sq, deltas) ==
    {Sq(FileOf(sq) + d[1], RankOf(sq) + d[2]) :
        d \in {e \in deltas : OnBoard(FileOf(sq) + e[1], RankOf(sq) + e[2])}}

\* The squares along one direction from (f, r), up to and including the
\* first occupied one.
RECURSIVE RaySquares(_, _, _, _, _)
RaySquares(pieces, f, r, df, dr) ==
    IF ~OnBoard(f + df, r + dr) THEN {}
    ELSE IF pieces[Sq(f + df, r + dr)] # "." THEN {Sq(f + df, r + dr)}
    ELSE {Sq(f + df, r + dr)} \cup RaySquares(pieces, f + df, r + dr, df, dr)

SlideTargets(pieces, sq, dirs) ==
    UNION {RaySquares(pieces, FileOf(sq), RankOf(sq), d[1], d[2]) : d \in dirs}

PawnDir(color) == IF color = "w" THEN 1 ELSE -1

\* The squares the piece on sq attacks.
Attacks(pieces, sq) ==
    LET p == pieces[sq]
        role == RoleOf(p)
    IN  IF role = "P" THEN StepTargets(sq, {<<-1, PawnDir(ColorOf(p))>>, <<1, PawnDir(ColorOf(p))>>})
        ELSE IF role = "N" THEN StepTargets(sq, KnightDeltas)
        ELSE IF role = "K" THEN StepTargets(sq, KingDeltas)
        ELSE IF role = "R" THEN SlideTargets(pieces, sq, RookDirs)
        ELSE IF role = "B" THEN SlideTargets(pieces, sq, BishopDirs)
        ELSE IF role = "Q" THEN SlideTargets(pieces, sq, KingDeltas)
        ELSE {}

\* The first piece along one direction from (f, r), or "." when the ray
\* leaves the board.
RECURSIVE FirstOnRay(_, _, _, _, _)
FirstOnRay(pieces, f, r, df, dr) ==
    IF ~OnBoard(f + df, r + dr) THEN "."
    ELSE IF pieces[Sq(f + df, r + dr)] # "." THEN pieces[Sq(f + df, r + dr)]
    ELSE FirstOnRay(pieces, f + df, r + dr, df, dr)

\* Whether a piece of colour `by` attacks the square target (the attackers
\* are found from the target: a knight a knight's move away, a rook or queen
\* first on a rank or file, ...).
IsAttacked(pieces, target, by) ==
    \/ \E s \in StepTargets(target, KnightDeltas) : pieces[s] = PieceOf(by, "N")
    \/ \E s \in StepTargets(target, KingDeltas) : pieces[s] = PieceOf(by, "K")
    \/ \E s \in StepTargets(target, {<<-1, -PawnDir(by)>>, <<1, -PawnDir(by)>>}) :
          pieces[s] = PieceOf(by, "P")
    \/ \E d \in RookDirs :
          FirstOnRay(pieces, FileOf(target), RankOf(target), d[1], d[2])
              \in {PieceOf(by, "R"), PieceOf(by, "Q")}
    \/ \E d \in BishopDirs :
          FirstOnRay(pieces, FileOf(target), RankOf(target), d[1], d[2])
              \in {PieceOf(by, "B"), PieceOf(by, "Q")}

KingSquares(pieces, color) == {s \in Squares : pieces[s] = PieceOf(color, "K")}
KingSquare(pieces, color) == CHOOSE s \in Squares : pieces[s] = PieceOf(color, "K")
InCheck(pieces, color) == IsAttacked(pieces, KingSquare(pieces, color), Other(color))

(***************************************************************************)
(* Rules capability (shakmaty): moves.  A move is shakmaty's Move:         *)
(* Normal {role, from, capture, to, promotion}, EnPassant {from, to} or    *)
(* Castle {king, rook}; capture and promotion are a role or "" (None).     *)
(* Move::from() of a Castle is the king's square and Move::to() the        *)
(* rook's square.                                                          *)
(***************************************************************************)
NormalMove(role, from, to, capture, promotion) ==
    [kind |-> "normal", role |-> role, from |-> from, to |-> to,
     capture |-> capture, promotion |-> promotion]
EnPassantMove(from, to) ==
    [kind |-> "enpassant", role |-> "P", from |-> from, to |-> to,
     capture |-> "P", promotion |-> ""]
CastleMove(king, rook) ==
    [kind |-> "castle", role |-> "K", from |-> king, to |-> rook,
     capture |-> "", promotion |-> ""]

PromotionRoles == {"Q", "R", "B", "N"}
BackRank(color) == IF color = "w" THEN 0 ELSE 7
LastRank(color) == IF color = "w" THEN 7 ELSE 0
PawnRank(color) == IF color = "w" THEN 1 ELSE 6

\* A pawn's move from `from` to `to`, once for each promotion role on the
\* last rank.
PawnMovesTo(color, from, to, capture) ==
    IF RankOf(to) = LastRank(color)
    THEN {NormalMove("P", from, to, capture, r) : r \in PromotionRoles}
    ELSE {NormalMove("P", from, to, capture, "")}

PawnMoves(b, from) ==
    LET c == b.turn
        one == from + 8 * PawnDir(c)
        two == from + 16 * PawnDir(c)
        pushes ==
            IF one \in Squares /\ b.pieces[one] = "."
            THEN {one} \cup (IF RankOf(from) = PawnRank(c) /\ b.pieces[two] = "."
                             THEN {two} ELSE {})
            ELSE {}
        takes == {t \in Attacks(b.pieces, from) : ColorOf(b.pieces[t]) = Other(c)}
    IN  UNION {PawnMovesTo(c, from, t, "") : t \in pushes}
        \cup UNION {PawnMovesTo(c, from, t, RoleOf(b.pieces[t])) : t \in takes}
        \cup {EnPassantMove(from, t) : t \in {u \in Attacks(b.pieces, from) : u = b.ep}}

PieceMoves(b, from) ==
    {NormalMove(RoleOf(b.pieces[from]), from, t,
                IF b.pieces[t] = "." THEN "" ELSE RoleOf(b.pieces[t]), "") :
        t \in {u \in Attacks(b.pieces, from) : ColorOf(b.pieces[u]) # b.turn}}

\* The pseudo-legal moves of the piece on `from` (none when the square is
\* empty or holds a piece of the side not to move).
PseudoMovesFrom(b, from) ==
    IF ColorOf(b.pieces[from]) # b.turn THEN {}
    ELSE IF RoleOf(b.pieces[from]) = "P" THEN PawnMoves(b, from)
    ELSE PieceMoves(b, from)

\* The pieces after a move (the board part of play_unchecked).
ApplyPieces(pieces, m) ==
    LET color == ColorOf(pieces[m.from])
    IN  IF m.kind = "castle"
        THEN LET short == FileOf(m.to) > FileOf(m.from)
                 r == RankOf(m.from)
                 cleared == [pieces EXCEPT ![m.from] = ".", ![m.to] = "."]
             IN  [cleared EXCEPT ![Sq(IF short THEN 6 ELSE 2, r)] = PieceOf(color, "K"),
                                 ![Sq(IF short THEN 5 ELSE 3, r)] = PieceOf(color, "R")]
        ELSE IF m.kind = "enpassant"
        THEN [pieces EXCEPT ![m.from] = ".", ![m.to] = pieces[m.from],
                            ![Sq(FileOf(m.to), RankOf(m.from))] = "."]
        ELSE [pieces EXCEPT ![m.from] = ".",
                            ![m.to] = IF m.promotion # "" THEN PieceOf(color, m.promotion)
                                      ELSE pieces[m.from]]

\* The castling right letter and the rook's home square of each castling.
CastlingSides == {"K", "Q", "k", "q"}
CastleColor(side) == IF side \in {"K", "Q"} THEN "w" ELSE "b"
CastleRook(side) ==
    Sq(IF side \in {"K", "k"} THEN 7 ELSE 0, BackRank(CastleColor(side)))
CastleKing(side) == Sq(4, BackRank(CastleColor(side)))
\* The squares between king and rook, and those the king crosses or lands on.
CastleBetween(side) ==
    {Sq(f, BackRank(CastleColor(side))) :
        f \in IF side \in {"K", "k"} THEN {5, 6} ELSE {1, 2, 3}}
CastleKingPath(side) ==
    {Sq(f, BackRank(CastleColor(side))) :
        f \in IF side \in {"K", "k"} THEN {5, 6} ELSE {2, 3}}

CastlingMovesFrom(b, from) ==
    {CastleMove(CastleKing(side), CastleRook(side)) :
        side \in {x \in b.castles :
            /\ CastleColor(x) = b.turn
            /\ CastleKing(x) = from
            /\ \A q \in CastleBetween(x) : b.pieces[q] = "."
            /\ ~IsAttacked(b.pieces, CastleKing(x), Other(b.turn))
            /\ \A q \in CastleKingPath(x) : ~IsAttacked(b.pieces, q, Other(b.turn))}}

\* The legal moves whose Move::from() is `from`: the pseudo-legal moves that
\* do not leave the mover's king attacked, and the castlings.
LegalMovesFrom(b, from) ==
    {m \in PseudoMovesFrom(b, from) : ~InCheck(ApplyPieces(b.pieces, m), b.turn)}
    \cup CastlingMovesFrom(b, from)

\* Position::legal_moves.
legal_moves(b) == UNION {LegalMovesFrom(b, s) : s \in Squares}

\* Position::play_unchecked.
play_unchecked(b, m) ==
    LET lost == {side \in b.castles :
                    \/ m.from = CastleKing(side)
                    \/ m.from = CastleRook(side)
                    \/ m.to = CastleRook(side)}
    IN  [pieces    |-> ApplyPieces(b.pieces, m),
         turn      |-> Other(b.turn),
         castles   |-> b.castles \ lost,
         ep        |-> IF m.kind = "normal" /\ m.role = "P"
                          /\ (m.to - m.from = 16 \/ m.from - m.to = 16)
                       THEN (m.from + m.to) \div 2 ELSE -1,
         halfmoves |-> IF m.role = "P" \/ m.capture # "" THEN 0 ELSE b.halfmoves + 1,
         fullmoves |-> IF b.turn = "b" THEN b.fullmoves + 1 ELSE b.fullmoves]

\* Chess::default(): the standard starting position.
StartPieces ==
    [s \in Squares |->
        IF RankOf(s) = 0 THEN Ch("RNBQKBNR", FileOf(s) + 1)
        ELSE IF RankOf(s) = 1 THEN "P"
        ELSE IF RankOf(s) = 6 THEN "p"
        ELSE IF RankOf(s) = 7 THEN Ch("rnbqkbnr", FileOf(s) + 1)
        ELSE "."]

ChessDefault ==
    [pieces |-> StartPieces, turn |-> "w", castles |-> CastlingSides, ep |-> -1,
     halfmoves |-> 0, fullmoves |-> 1]

(***************************************************************************)
(* Rules capability (shakmaty): San::from_move(board, m).to_string().      *)
(***************************************************************************)
\* Position::san_candidates: the legal moves of a role to a square.
san_candidates(b, role, to) ==
    {m \in UNION {LegalMovesFrom(b, s) :
                    s \in {u \in Squares : b.pieces[u] = PieceOf(b.turn, role)}} :
        m.kind = "normal" /\ m.to = to}

SanText(b, m) ==
    IF m.kind = "castle"
    THEN (IF FileOf(m.to) > FileOf(m.from) THEN "O-O" ELSE "O-O-O")
    ELSE IF m.role = "P"
    THEN (IF m.capture # "" THEN Ch(FILES, FileOf(m.from) + 1) \o "x" ELSE "")
         \o SquareName(m.to)
         \o (IF m.promotion # "" THEN "=" \o m.promotion ELSE "")
    ELSE LET others == {c \in san_candidates(b, m.role, m.to) : c.from # m.from}
             \* Another candidate on the same rank, or on another file: the
             \* file tells them apart; otherwise (same file) the rank does.
             file == \E c \in others :
                        RankOf(c.from) = RankOf(m.from) \/ FileOf(c.from) # FileOf(m.from)
             rank == \E c \in others :
                        ~(RankOf(c.from) = RankOf(m.from) \/ FileOf(c.from) # FileOf(m.from))
         IN  m.role
             \o (IF file THEN Ch(FILES, FileOf(m.from) + 1) ELSE "")
             \o (IF rank THEN Ch(RANKS, RankOf(m.from) + 1) ELSE "")
             \o (IF m.capture # "" THEN "x" ELSE "")
             \o SquareName(m.to)

(***************************************************************************)
(* Rules capability (shakmaty): position descriptions (FEN).               *)
(***************************************************************************)
\* A number below 10^9 as decimal digits.
RECURSIVE ToDecimal(_)
ToDecimal(n) ==
    IF n < 10 THEN Ch("0123456789", n + 1)
    ELSE ToDecimal(n \div 10) \o Ch("0123456789", (n % 10) + 1)

\* One rank of the placement field, from file f on, after `empties` empty
\* squares.
RECURSIVE RankText(_, _, _, _)
RankText(pieces, r, f, empties) ==
    IF f > 7 THEN (IF empties > 0 THEN ToDecimal(empties) ELSE "")
    ELSE IF pieces[Sq(f, r)] = "." THEN RankText(pieces, r, f + 1, empties + 1)
    ELSE (IF empties > 0 THEN ToDecimal(empties) ELSE "")
         \o pieces[Sq(f, r)] \o RankText(pieces, r, f + 1, 0)

RECURSIVE PlacementText(_, _)
PlacementText(pieces, r) ==
    RankText(pieces, r, 0, 0) \o (IF r = 0 THEN "" ELSE "/" \o PlacementText(pieces, r - 1))

CastlingText(castles) ==
    IF castles = {} THEN "-"
    ELSE (IF "K" \in castles THEN "K" ELSE "") \o (IF "Q" \in castles THEN "Q" ELSE "")
         \o (IF "k" \in castles THEN "k" ELSE "") \o (IF "q" \in castles THEN "q" ELSE "")

\* EnPassantMode::Legal: the en-passant square is written only when a legal
\* en-passant capture exists.
LegalEpSquare(b) ==
    IF b.ep = -1 THEN -1
    ELSE IF \E s \in {u \in Squares : b.pieces[u] = PieceOf(b.turn, "P")} :
               /\ b.ep \in Attacks(b.pieces, s)
               /\ ~InCheck(ApplyPieces(b.pieces, EnPassantMove(s, b.ep)), b.turn)
    THEN b.ep ELSE -1

\* Fen::from_position(&board, EnPassantMode::Legal).to_string()
FenText(b) ==
    PlacementText(b.pieces, 7) \o " " \o b.turn \o " " \o CastlingText(b.castles)
    \o " " \o (IF LegalEpSquare(b) = -1 THEN "-" ELSE SquareName(LegalEpSquare(b)))
    \o " " \o ToDecimal(b.halfmoves) \o " " \o ToDecimal(b.fullmoves)

\* The placement field: ranks 8 down to 1 separated by "/", a piece letter or
\* a count of empty squares.  None when a rank overflows, is left short, or a
\* character is neither.
RECURSIVE ParsePlacement(_, _, _, _, _)
ParsePlacement(s, i, f, r, pieces) ==
    IF i > Len(s) THEN (IF r = 0 /\ f = 8 THEN Some(pieces) ELSE None)
    ELSE LET c == Ch(s, i)
         IN  IF c = "/"
             THEN (IF f = 8 /\ r > 0 THEN ParsePlacement(s, i + 1, 0, r - 1, pieces)
                   ELSE None)
             ELSE IF IndexIn("12345678", c, 1) > 0
             THEN (IF f + IndexIn("12345678", c, 1) <= 8
                   THEN ParsePlacement(s, i + 1, f + IndexIn("12345678", c, 1), r, pieces)
                   ELSE None)
             ELSE IF IsWhitePiece(c) \/ IsBlackPiece(c)
             THEN (IF f < 8
                   THEN ParsePlacement(s, i + 1, f + 1, r, [pieces EXCEPT ![Sq(f, r)] = c])
                   ELSE None)
             ELSE None

RECURSIVE ParseCastling(_, _, _)
ParseCastling(s, i, acc) ==
    IF i > Len(s) THEN Some(acc)
    ELSE IF Ch(s, i) \in CastlingSides THEN ParseCastling(s, i + 1, acc \cup {Ch(s, i)})
    ELSE None

\* The value of a canonical numeral below 10^9.
RECURSIVE ToNumber(_, _, _)
ToNumber(s, i, acc) ==
    IF i > Len(s) THEN acc
    ELSE ToNumber(s, i + 1, acc * 10 + IndexIn("0123456789", Ch(s, i), 1) - 1)

\* <Fen as FromStr>::from_str(text).ok(): the fields in order, a missing
\* field taking its default, a seventh field an error.  (The descriptions of
\* the model are separated by single spaces and hold counters below 10^9.)
ParseFen(text) ==
    LET parts == split_whitespace(text)
        n == Len(parts)
        placement == IF n >= 1
                     THEN ParsePlacement(parts[1], 1, 0, 7, [s \in Squares |-> "."])
                     ELSE None
        castles == IF n >= 3 /\ parts[3] # "-" THEN ParseCastling(parts[3], 1, {})
                   ELSE Some({})
        ep == IF n >= 4 /\ parts[4] # "-" THEN parse_square(parts[4]) ELSE Some(-1)
        half == IF n >= 5 THEN parse_unsigned(parts[5], U32Max) ELSE Some("0")
        full == IF n >= 6 THEN parse_unsigned(parts[6], U32Max) ELSE Some("1")
    IN  IF /\ n <= 6
           /\ placement.some
           /\ (n >= 2 => parts[2] \in {"w", "b"})
           /\ castles.some /\ ep.some /\ half.some /\ full.some
        THEN Some([pieces    |-> placement.v,
                   turn      |-> IF n >= 2 THEN parts[2] ELSE "w",
                   castles   |-> castles.v,
                   ep        |-> ep.v,
                   halfmoves |-> ToNumber(half.v, 1, 0),
                   fullmoves |-> IF full.v = "0" THEN 1 ELSE ToNumber(full.v, 1, 0)])
        ELSE None

\* Fen::into_position(CastlingMode::Standard).ok(): the setup is a position
\* when each side has exactly one king, no pawn stands on a back rank, each
\* castling right has its king and rook at home, the en-passant square lies
\* behind a pawn that can just have advanced two squares, and the side that
\* is not to move is not in check.
into_position(setup) ==
    LET p == setup.pieces
        epOk == \/ setup.ep = -1
                \/ /\ RankOf(setup.ep) = (IF setup.turn = "w" THEN 5 ELSE 2)
                   /\ p[setup.ep] = "."
                   /\ p[setup.ep + 8 * PawnDir(setup.turn)] = "."
                   /\ p[setup.ep - 8 * PawnDir(setup.turn)] = PieceOf(Other(setup.turn), "P")
    IN  IF /\ Cardinality(KingSquares(p, "w")) = 1
           /\ Cardinality(KingSquares(p, "b")) = 1
           /\ \A s \in Squares : RankOf(s) \in {0, 7} => RoleOf(p[s]) # "P"
           /\ \A side \in setup.castles :
                 /\ p[CastleKing(side)] = PieceOf(CastleColor(side), "K")
                 /\ p[CastleRook(side)] = PieceOf(CastleColor(side), "R")
           /\ epOk
           /\ ~InCheck(p, Other(setup.turn))
        THEN Some(setup)
        ELSE None

(***************************************************************************)
(* ucitap2json.rs: the functions of the program.                           *)
(***************************************************************************)
\* trim_fen without the cut to four fields (mutant for C2).
trim_fen_uncut(fen) == fen

\* fn trim_fen
trim_fen(fen) ==
    LET parts == split_whitespace(fen)
    IN  IF Len(parts) >= 4 THEN join(SubSeq(parts, 1, 4)) ELSE fen

\* The promotion selected by a token: its fifth character when the token has
\* exactly five, "" (None) otherwise.
PromotionOf(uci) ==
    IF Len(uci) = 5
    THEN (IF Ch(uci, 5) = "q" THEN "Q"
          ELSE IF Ch(uci, 5) = "r" THEN "R"
          ELSE IF Ch(uci, 5) = "b" THEN "B"
          ELSE IF Ch(uci, 5) = "n" THEN "N"
          ELSE "")
    ELSE ""

\* The loop of parse_uci_move without its tests of the promotion (mutant for
\* C10).
MatchingMovesAnyPromotion(board, from, to, promotion) ==
    {m \in LegalMovesFrom(board, from) : m.to = to}

\* The loop of parse_uci_move without its test of the destination (mutant
\* for C11).
MatchingMovesAnyDestination(board, from, to, promotion) ==
    {m \in LegalMovesFrom(board, from) : m.promotion = promotion}

\* The loop of parse_uci_move: the legal moves that pass its tests.  The
\* loop tests m.from() == Some(from) first, so only the legal moves from
\* that square are generated here.
MatchingMoves(board, from, to, promotion) ==
    {m \in LegalMovesFrom(board, from) : m.to = to /\ m.promotion = promotion}

\* fn parse_uci_move: the first legal move that matches; the rules yield at
\* most one.
parse_uci_move(uci, board) ==
    IF Len(uci) < 4 THEN None
    ELSE LET from == parse_square(SubSeq(uci, 1, 2))
             to == parse_square(SubSeq(uci, 3, 4))
         IN  IF ~from.some \/ ~to.some THEN None
             ELSE LET found == MatchingMoves(board, from.v, to.v, PromotionOf(uci))
                  IN  IF found = {} THEN None ELSE Some(CHOOSE m \in found : TRUE)

\* The loop of convert_pv_to_san with the `break` left out, so that it goes
\* on to the next token as the loop of apply_moves does (mutant for C9).
RECURSIVE PvLoopNoBreak(_, _, _, _)
PvLoopNoBreak(tokens, i, board, san_moves) ==
    IF i > Len(tokens) THEN san_moves
    ELSE LET chess_move == parse_uci_move(tokens[i], board)
         IN  IF chess_move.some
             THEN PvLoopNoBreak(tokens, i + 1, play_unchecked(board, chess_move.v),
                                Append(san_moves, SanText(board, chess_move.v)))
             ELSE PvLoopNoBreak(tokens, i + 1, board, san_moves)

\* The loop of convert_pv_to_san from token i on.
RECURSIVE PvLoop(_, _, _, _)
PvLoop(tokens, i, board, san_moves) ==
    IF i > Len(tokens) THEN san_moves
    ELSE LET chess_move == parse_uci_move(tokens[i], board)
         IN  IF chess_move.some
             THEN PvLoop(tokens, i + 1, play_unchecked(board, chess_move.v),
                         Append(san_moves, SanText(board, chess_move.v)))
             ELSE san_moves

\* fn convert_pv_to_san
convert_pv_to_san(pv_text, initial_board) ==
    join(PvLoop(split_whitespace(pv_text), 1, initial_board, <<>>))

\* The loop of apply_moves from token i on.
RECURSIVE ApplyLoop(_, _, _)
ApplyLoop(tokens, i, board) ==
    IF i > Len(tokens) THEN board
    ELSE LET chess_move == parse_uci_move(tokens[i], board)
         IN  IF chess_move.some
             THEN ApplyLoop(tokens, i + 1, play_unchecked(board, chess_move.v))
             ELSE ApplyLoop(tokens, i + 1, board)

\* fn apply_moves
apply_moves(board, moves_str) == ApplyLoop(split_whitespace(moves_str), 1, board)

(***************************************************************************)
(* ucitap2json.rs: fn main, the line loop.                                 *)
(*                                                                         *)
(* board .. results and line_count are the locals of main.  trace is the   *)
(* input consumed so far (the lines the loop has read, in order) and call  *)
(* is one application of a function of the program to given arguments;     *)
(* both are there to state properties and no action of the loop reads      *)
(* them.                                                                   *)
(***************************************************************************)
VARIABLES board, engine, fen, ply, score, mate, nodes, nps, time, pv, results,
          line_count, trace, call

accumulator == <<ply, score, mate, nodes, nps, time, pv>>
locals == <<board, engine, fen, ply, score, mate, nodes, nps, time, pv, results,
            line_count>>

\* ucitap.rs: the state of the tee utility (fn main and its two threads),
\* described in the section "ucitap.rs" below.
VARIABLES caller, stdin, engine_stdin, child, engine_stdout, stdout, logfile,
          logfile_lock, stdin_thread, stdout_thread, main_pc

tee_vars == <<caller, stdin, engine_stdin, child, engine_stdout, stdout, logfile,
              logfile_lock, stdin_thread, stdout_thread, main_pc>>

vars == <<board, engine, fen, ply, score, mate, nodes, nps, time, pv, results,
          line_count, trace, call, tee_vars>>

\* A chunk: the bytes one read returned, the k-th of its direction ("in":
\* caller to engine, "out": engine to caller); `after` is, for a chunk the
\* engine wrote, the number of chunks the engine had received by then.
NoChunk == [dir |-> "none", k |-> 0, after |-> 0]

\* A thread of the tee at the top of its loop: nothing in buf, and no byte
\* of it written to the log.
ThreadStart == [pc |-> "read", buf |-> NoChunk, logged |-> 0]

\* The tee after the engine was spawned and the two threads were started:
\* main is at its first join.
InitTee ==
    /\ caller = [sent |-> 0, closed |-> FALSE]
    /\ stdin = <<>>
    /\ engine_stdin = <<>>
    /\ child = [received |-> 0, produced |-> 0, exited |-> FALSE]
    /\ engine_stdout = <<>>
    /\ stdout = <<>>
    /\ logfile = <<>>
    /\ logfile_lock = "none"
    /\ stdin_thread = ThreadStart
    /\ stdout_thread = ThreadStart
    /\ main_pc = "join_stdin"

\* struct Payload, built at the bestmove line.
Payload ==
    [engine |-> engine, fen |-> fen.v, ply |-> ply, score |-> score, mate |-> mate,
     nodes |-> nodes, nps |-> nps, time |-> time, pv |-> pv]

\* The branch of the loop body a line takes, in the order the body tests.
Kind(l) ==
    IF l = "uci" \/ l = "ucinewgame" THEN "newgame"
    ELSE IF starts_with(l, "id name ") THEN "idname"
    ELSE IF starts_with(l, "position ") THEN "position"
    ELSE IF find(l, "info ") >= 0 THEN "info"
    ELSE IF starts_with(l, "bestmove") THEN "bestmove"
    ELSE "other"

NoCall == [fn |-> "none"]

Init ==
    /\ board = ChessDefault
    /\ engine = ""
    /\ fen = None
    /\ ply = None /\ score = None /\ mate = None /\ nodes = None
    /\ nps = None /\ time = None /\ pv = None
    /\ results = <<>>
    /\ line_count = 0
    /\ trace = <<>>
    /\ call = NoCall
    /\ InitTee

\* The new-game branch without `pv = None` (mutant for C4).
NewGameKeepsPv(l) ==
    /\ Kind(l) = "newgame"
    /\ board' = ChessDefault
    /\ fen' = None
    /\ ply' = None /\ score' = None /\ mate' = None /\ nodes' = None
    /\ nps' = None /\ time' = None
    /\ line_count' = line_count + 1
    /\ UNCHANGED <<engine, results, pv>>

\* The new-game branch with an added `engine = String::new()` (mutant for
\* C5).
NewGameResetsEngine(l) ==
    /\ Kind(l) = "newgame"
    /\ board' = ChessDefault
    /\ engine' = ""
    /\ fen' = None
    /\ ply' = None /\ score' = None /\ mate' = None /\ nodes' = None
    /\ nps' = None /\ time' = None /\ pv' = None
    /\ line_count' = line_count + 1
    /\ UNCHANGED results

\* The new-game branch without `fen = None` (mutant for C16).
NewGameKeepsFen(l) ==
    /\ Kind(l) = "newgame"
    /\ board' = ChessDefault
    /\ ply' = None /\ score' = None /\ mate' = None /\ nodes' = None
    /\ nps' = None /\ time' = None /\ pv' = None
    /\ line_count' = line_count + 1
    /\ UNCHANGED <<engine, fen, results>>

\* "uci" | "ucinewgame" => { ...; continue; }
NewGame(l) ==
    /\ Kind(l) = "newgame"
    /\ board' = ChessDefault
    /\ fen' = None
    /\ ply' = None /\ score' = None /\ mate' = None /\ nodes' = None
    /\ nps' = None /\ time' = None /\ pv' = None
    /\ line_count' = line_count + 1
    /\ UNCHANGED <<engine, results>>

\* if let Some(rest) = line.strip_prefix("id name ")
IdName(l) ==
    /\ Kind(l) = "idname"
    /\ engine' = strip_prefix(l, "id name ").v
    /\ line_count' = line_count + 1
    /\ UNCHANGED <<board, fen, accumulator, results>>

\* The description of a "position fen ..." command, parsed and set up:
\* fen_str.parse::<Fen>() and into_position, both Ok, or None.
PositionFromFen(fen_str) ==
    IF ParseFen(fen_str).some THEN into_position(ParseFen(fen_str).v) ELSE None

\* The board after a position command that falls back to the start position
\* where the description does not yield a position (mutant for C12).
PositionBoardResetsOnFailure(rest) ==
    IF starts_with(rest, "startpos")
    THEN (IF strip_prefix(rest, "startpos moves ").some
          THEN apply_moves(ChessDefault, strip_prefix(rest, "startpos moves ").v)
          ELSE ChessDefault)
    ELSE LET fen_part == strip_prefix(rest, "fen ").v
             moves_idx == find(fen_part, " moves ")
         IN  IF moves_idx >= 0
             THEN LET pos == PositionFromFen(SubSeq(fen_part, 1, moves_idx))
                  IN  IF pos.some
                      THEN apply_moves(pos.v, SubSeq(fen_part, moves_idx + 8, Len(fen_part)))
                      ELSE ChessDefault
             ELSE LET pos == PositionFromFen(fen_part)
                  IN  IF pos.some THEN pos.v ELSE ChessDefault

\* The board after a position command with apply_moves called outside the
\* parse attempts, so that the move list is applied to the board left by
\* earlier lines where the description does not yield a position (mutant for
\* C13).
PositionBoardAppliesToStale(rest) ==
    IF starts_with(rest, "startpos")
    THEN (IF strip_prefix(rest, "startpos moves ").some
          THEN apply_moves(ChessDefault, strip_prefix(rest, "startpos moves ").v)
          ELSE ChessDefault)
    ELSE LET fen_part == strip_prefix(rest, "fen ").v
             moves_idx == find(fen_part, " moves ")
         IN  IF moves_idx >= 0
             THEN LET pos == PositionFromFen(SubSeq(fen_part, 1, moves_idx))
                  IN  apply_moves(IF pos.some THEN pos.v ELSE board,
                                  SubSeq(fen_part, moves_idx + 8, Len(fen_part)))
             ELSE LET pos == PositionFromFen(fen_part)
                  IN  IF pos.some THEN pos.v ELSE board

\* The board after a position command with the given rest of the line.
PositionBoard(rest) ==
    IF starts_with(rest, "startpos")
    THEN (IF strip_prefix(rest, "startpos moves ").some
          THEN apply_moves(ChessDefault, strip_prefix(rest, "startpos moves ").v)
          ELSE ChessDefault)
    ELSE LET fen_part == strip_prefix(rest, "fen ").v
             moves_idx == find(fen_part, " moves ")
         IN  IF moves_idx >= 0
             THEN LET pos == PositionFromFen(SubSeq(fen_part, 1, moves_idx))
                  IN  IF pos.some
                      THEN apply_moves(pos.v, SubSeq(fen_part, moves_idx + 8, Len(fen_part)))
                      ELSE board
             ELSE LET pos == PositionFromFen(fen_part)
                  IN  IF pos.some THEN pos.v ELSE board

\* The position branch storing a fingerprint only for a description that
\* parsed (mutant for C1).
PositionStoresParsedOnly(l) ==
    /\ Kind(l) = "position"
    /\ LET rest == strip_prefix(l, "position ").v
       IN  IF starts_with(rest, "startpos")
              \/ (/\ starts_with(rest, "fen ")
                  /\ PositionFromFen(
                         IF find(rest, " moves ") >= 0
                         THEN SubSeq(rest, 5, find(rest, " moves "))
                         ELSE SubSeq(rest, 5, Len(rest))).some)
           THEN LET new_board == PositionBoard(rest)
                IN  /\ board' = new_board
                    /\ fen' = Some(trim_fen(FenText(new_board)))
           ELSE UNCHANGED <<board, fen>>
    /\ line_count' = line_count + 1
    /\ UNCHANGED <<engine, accumulator, results>>

\* if let Some(rest) = line.strip_prefix("position ")
Position(l) ==
    /\ Kind(l) = "position"
    /\ LET rest == strip_prefix(l, "position ").v
       IN  IF starts_with(rest, "startpos") \/ starts_with(rest, "fen ")
           THEN LET new_board == PositionBoard(rest)
                IN  /\ board' = new_board
                    /\ fen' = Some(trim_fen(FenText(new_board)))
           ELSE UNCHANGED <<board, fen>>
    /\ line_count' = line_count + 1
    /\ UNCHANGED <<engine, accumulator, results>>

\* parts.get(i + 1).and_then(|v| v.parse().ok()) for the six numeric fields.
ValueAfter(parts, i, key) ==
    IF i + 1 > Len(parts) THEN None
    ELSE IF key \in {"cp", "mate"} THEN parse_i32(parts[i + 1])
    ELSE IF key = "depth" THEN parse_unsigned(parts[i + 1], U32Max)
    ELSE parse_unsigned(parts[i + 1], U64Max)

InfoKeys == {"depth", "cp", "mate", "nodes", "nps", "time"}

\* The while loop of the info branch writing a field only while it is unset
\* (mutant for C8).
RECURSIVE InfoLoopFirstWins(_, _, _)
InfoLoopFirstWins(parts, i, acc) ==
    IF i > Len(parts) THEN acc
    ELSE IF parts[i] \in InfoKeys /\ ~acc[parts[i]].some
    THEN InfoLoopFirstWins(parts, i + 1,
                           [acc EXCEPT ![parts[i]] = ValueAfter(parts, i, parts[i])])
    ELSE InfoLoopFirstWins(parts, i + 1, acc)

\* The while loop of the info branch from index i on; acc maps each key to
\* its field (depth: ply, cp: score, the others by their names).
RECURSIVE InfoLoop(_, _, _)
InfoLoop(parts, i, acc) ==
    IF i > Len(parts) THEN acc
    ELSE IF parts[i] \in InfoKeys
    THEN InfoLoop(parts, i + 1, [acc EXCEPT ![parts[i]] = ValueAfter(parts, i, parts[i])])
    ELSE InfoLoop(parts, i + 1, acc)

\* re_pv.captures(&line), group 2: the rest of the line after the leftmost
\* "pv " that starts the line or follows a space.
PvCapture(l) ==
    IF starts_with(l, "pv ") THEN Some(SubSeq(l, 4, Len(l)))
    ELSE IF find(l, " pv ") >= 0 THEN Some(SubSeq(l, find(l, " pv ") + 5, Len(l)))
    ELSE None

\* The info branch handing the live board, not a clone, to the conversion of
\* the principal variation, which plays its moves on it (mutant for C14).
InfoPlaysPvOnBoard(l) ==
    /\ Kind(l) = "info"
    /\ LET acc == InfoLoop(split_whitespace(l), 1,
                           [depth |-> ply, cp |-> score, mate |-> mate,
                            nodes |-> nodes, nps |-> nps, time |-> time])
       IN  /\ ply' = acc.depth /\ score' = acc.cp /\ mate' = acc.mate
           /\ nodes' = acc.nodes /\ nps' = acc.nps /\ time' = acc.time
    /\ pv' = IF PvCapture(l).some
             THEN Some(convert_pv_to_san(trim(PvCapture(l).v), board))
             ELSE pv
    /\ board' = IF PvCapture(l).some
                THEN apply_moves(board, trim(PvCapture(l).v))
                ELSE board
    /\ line_count' = line_count + 1
    /\ UNCHANGED <<engine, fen, results>>

\* if re_info.is_match(&line)
Info(l) ==
    /\ Kind(l) = "info"
    /\ LET acc == InfoLoop(split_whitespace(l), 1,
                           [depth |-> ply, cp |-> score, mate |-> mate,
                            nodes |-> nodes, nps |-> nps, time |-> time])
       IN  /\ ply' = acc.depth /\ score' = acc.cp /\ mate' = acc.mate
           /\ nodes' = acc.nodes /\ nps' = acc.nps /\ time' = acc.time
    /\ pv' = IF PvCapture(l).some
             THEN Some(convert_pv_to_san(trim(PvCapture(l).v), board))
             ELSE pv
    /\ line_count' = line_count + 1
    /\ UNCHANGED <<board, engine, fen, results>>

\* The bestmove branch keeping only the newest record (mutant for C3).
BestMoveKeepsNewest(l) ==
    /\ Kind(l) = "bestmove"
    /\ results' = IF fen.some THEN <<Payload>> ELSE results
    /\ ply' = None /\ score' = None /\ mate' = None /\ nodes' = None
    /\ nps' = None /\ time' = None /\ pv' = None
    /\ line_count' = line_count + 1
    /\ UNCHANGED <<board, engine, fen>>

\* The bestmove branch forgetting the fingerprint after it emitted (mutant
\* for C15).
BestMoveClearsFen(l) ==
    /\ Kind(l) = "bestmove"
    /\ results' = IF fen.some THEN Append(results, Payload) ELSE results
    /\ ply' = None /\ score' = None /\ mate' = None /\ nodes' = None
    /\ nps' = None /\ time' = None /\ pv' = None
    /\ fen' = None
    /\ line_count' = line_count + 1
    /\ UNCHANGED <<board, engine>>

\* The bestmove branch clearing the accumulator only where it emitted
\* (mutant for C17).
BestMoveClearsOnlyOnEmit(l) ==
    /\ Kind(l) = "bestmove"
    /\ IF fen.some
       THEN /\ results' = Append(results, Payload)
            /\ ply' = None /\ score' = None /\ mate' = None /\ nodes' = None
            /\ nps' = None /\ time' = None /\ pv' = None
       ELSE UNCHANGED <<results, accumulator>>
    /\ line_count' = line_count + 1
    /\ UNCHANGED <<board, engine, fen>>

\* if line.starts_with("bestmove")
BestMove(l) ==
    /\ Kind(l) = "bestmove"
    /\ results' = IF fen.some THEN Append(results, Payload) ELSE results
    /\ ply' = None /\ score' = None /\ mate' = None /\ nodes' = None
    /\ nps' = None /\ time' = None /\ pv' = None
    /\ line_count' = line_count + 1
    /\ UNCHANGED <<board, engine, fen>>

\* Any other line: the loop body ends without an effect.
Ignored(l) ==
    /\ Kind(l) = "other"
    /\ line_count' = line_count + 1
    /\ UNCHANGED <<board, engine, fen, accumulator, results>>

\* One iteration of `for line in reader.lines()`.
Step(l) ==
    \/ NewGame(l)
    \/ IdName(l)
    \/ Position(l)
    \/ Info(l)
    \/ BestMove(l)
    \/ Ignored(l)

(***************************************************************************)
(* Transcripts.                                                            *)
(***************************************************************************)
\* The longest transcript read.
MaxLines == 4

\* A description that does not parse (three ranks only).
BadDescription == "8/8/8 w - - 0 1"
\* A position with a pawn that can promote by advancing or by capturing.
PromotionDescription == "1n5k/P7/8/8/8/8/8/K7 w - - 0 1"

Lines ==
    {"ucinewgame",
     "id name TestEngine",
     "position startpos moves e2e4",
     "position fen " \o BadDescription \o " moves e2e4",
     "info depth 10 score cp 25 pv e7e5 g1f3",
     "bestmove e2e4",
     "readyok"}

\* The loop reads line l, as one of at most max lines.
Read(l, max) ==
    /\ line_count < max
    /\ trace' = Append(trace, l)
    /\ UNCHANGED <<call, tee_vars>>

\* Every transcript of at most MaxLines lines over Lines.
Next ==
    \/ \E l \in Lines : Read(l, MaxLines) /\ NewGame(l)
    \/ \E l \in Lines : Read(l, MaxLines) /\ IdName(l)
    \/ \E l \in Lines : Read(l, MaxLines) /\ Position(l)
    \/ \E l \in Lines : Read(l, MaxLines) /\ Info(l)
    \/ \E l \in Lines : Read(l, MaxLines) /\ BestMove(l)
    \/ \E l \in Lines : Read(l, MaxLines) /\ Ignored(l)

Spec == Init /\ [][Next]_vars

\* The end-to-end example of the specification.
Example ==
    <<"uci",
      "id name TestEngine",
      "ucinewgame",
      "position startpos",
      "info depth 10 score cp 25 nodes 12345 nps 500000 time 20 pv e2e4 e7e5 g1f3",
      "bestmove e2e4">>

ExampleLines == {Example[i] : i \in 1 .. Len(Example)}
Unread(l) == \A i \in 1 .. Len(trace) : trace[i] # l

\* Every transcript that holds each line of the example at most once, in any
\* order; the example itself is one of them.
NextExample ==
    \/ \E l \in ExampleLines : Unread(l) /\ Read(l, Len(Example)) /\ NewGame(l)
    \/ \E l \in ExampleLines : Unread(l) /\ Read(l, Len(Example)) /\ IdName(l)
    \/ \E l \in ExampleLines : Unread(l) /\ Read(l, Len(Example)) /\ Position(l)
    \/ \E l \in ExampleLines : Unread(l) /\ Read(l, Len(Example)) /\ Info(l)
    \/ \E l \in ExampleLines : Unread(l) /\ Read(l, Len(Example)) /\ BestMove(l)

SpecExample == Init /\ [][NextExample]_vars

\* Search-info lines: two with values for the same keys, one with a key
\* twice, one with an unparsable value and a key without a value.
InfoLines ==
    {"ucinewgame",
     "position startpos",
     "info depth 10 score cp 25 nodes 12345",
     "info depth 12 score mate -3 depth 14",
     "info depth x nodes",
     "bestmove e2e4"}

\* Every transcript of at most MaxLines lines over InfoLines.
NextInfo ==
    \/ \E l \in InfoLines : Read(l, MaxLines) /\ NewGame(l)
    \/ \E l \in InfoLines : Read(l, MaxLines) /\ Position(l)
    \/ \E l \in InfoLines : Read(l, MaxLines) /\ Info(l)
    \/ \E l \in InfoLines : Read(l, MaxLines) /\ BestMove(l)

SpecInfo == Init /\ [][NextInfo]_vars

(***************************************************************************)
(* The functions applied to given arguments: call holds the arguments from *)
(* the start and, after the one step of the behaviour, the function        *)
(* applied and its result.                                                 *)
(***************************************************************************)
FnBoards ==
    {ChessDefault,
     apply_moves(ChessDefault, "e2e4"),
     PositionFromFen(PromotionDescription).v,
     apply_moves(ChessDefault, "e2e4 a7a6 e4e5 d7d5")}

FnTexts ==
    {"",
     "e2e4 e7e5 g1f3",
     "e2e4 e2e5 e7e5",
     "e7e5 e2e4 g1f3",
     "e5d6 e7d6",
     "e2 e2e4xx d7d5",
     "i2e4 e2e9 e2e4q",
     "a7a8q h8g7 a8b8",
     "a7a8 a7a8n",
     "a7a8x a7b8r",
     "a7b8 a7b8b h8h7"}

InitFns ==
    /\ board = ChessDefault
    /\ engine = ""
    /\ fen = None
    /\ ply = None /\ score = None /\ mate = None /\ nodes = None
    /\ nps = None /\ time = None /\ pv = None
    /\ results = <<>>
    /\ line_count = 0
    /\ trace = <<>>
    /\ call \in {[fn |-> "pending", board |-> b, text |-> t, ret |-> None] :
                    b \in FnBoards, t \in FnTexts}
    /\ InitTee

Return(fn, text, ret) ==
    /\ call.fn = "pending"
    /\ call' = [fn |-> fn, board |-> call.board, text |-> text, ret |-> ret]
    /\ UNCHANGED <<locals, trace, tee_vars>>

CallParseUciMove ==
    \E i \in 1 .. Len(split_whitespace(call.text)) :
        LET uci == split_whitespace(call.text)[i]
        IN  Return("parse_uci_move", uci, parse_uci_move(uci, call.board))

CallConvertPv ==
    Return("convert_pv_to_san", call.text, convert_pv_to_san(call.text, call.board))

CallApplyMoves ==
    Return("apply_moves", call.text, apply_moves(call.board, call.text))

NextFns == CallParseUciMove \/ CallConvertPv \/ CallApplyMoves

SpecFns == InitFns /\ [][NextFns]_vars

(***************************************************************************)
(* Properties.  They read the transcript consumed (trace) and the state    *)
(* the loop has reached on it.                                             *)
(***************************************************************************)
KindAt(i) == Kind(trace[i])
AllAbsent(r) ==
    /\ ~r.ply.some /\ ~r.score.some /\ ~r.mate.some /\ ~r.nodes.some
    /\ ~r.nps.some /\ ~r.time.some /\ ~r.pv.some
LastRecord == results[Len(results)]

\* The description a "position fen ..." line carries: the text after "fen "
\* up to a following " moves ".
DescriptionOf(l) ==
    LET fen_part == SubSeq(l, Len("position fen ") + 1, Len(l))
    IN  IF find(fen_part, " moves ") >= 0
        THEN SubSeq(fen_part, 1, find(fen_part, " moves "))
        ELSE fen_part

\* A set-position command of one of the two forms.
FormedPosition(l) ==
    starts_with(l, "position startpos") \/ starts_with(l, "position fen ")

\* A set-position command that was parsed successfully: the start form, or
\* the explicit form with a description that yields a position.
ParsedPosition(l) ==
    \/ starts_with(l, "position startpos")
    \/ starts_with(l, "position fen ") /\ PositionFromFen(DescriptionOf(l)).some

\* The index of the last new-game line before line i (0: none).
LastResetBefore(i) ==
    LET resets == {j \in 1 .. i - 1 : KindAt(j) = "newgame"}
    IN  IF resets = {} THEN 0 ELSE CHOOSE j \in resets : \A k \in resets : k <= j

\* The best-move lines read that had, since the last new-game line before
\* them, a set-position command satisfying P.
BestMovesAfter(P(_)) ==
    {i \in 1 .. Len(trace) :
        /\ KindAt(i) = "bestmove"
        /\ \E j \in LastResetBefore(i) + 1 .. i - 1 : KindAt(j) = "position" /\ P(trace[j])}

\* C1 as stated: the number of records equals the number of best-move lines
\* preceded, since the last new-game line, by a successfully parsed
\* set-position command (so none is emitted after only a description that
\* failed to parse).
C1_RecordsCountParsedPositions == Len(results) = Cardinality(BestMovesAfter(ParsedPosition))

\* C1 amended: the number of records equals the number of best-move lines
\* preceded, since the last new-game line, by a set-position command of the
\* start form or of the explicit form, whether or not its description
\* parsed.
C1_RecordsCountFormedPositions == Len(results) = Cardinality(BestMovesAfter(FormedPosition))

\* C1's case: a best-move line whose only set-position command carried a
\* description that failed to parse, and a record emitted for it.
C1_Witness ==
    /\ Len(trace) = 2
    /\ FormedPosition(trace[1]) /\ ~ParsedPosition(trace[1])
    /\ KindAt(2) = "bestmove"
    /\ Len(results) = 1

\* The record the example is expected to yield.
ExampleRecord ==
    [engine |-> "TestEngine",
     fen |-> "rnbqkbnr/pppppppp/8/8/8/8/PPPPPPPP/RNBQKBNR w KQkq -",
     ply |-> Some("10"), score |-> Some("25"), mate |-> None,
     nodes |-> Some("12345"), nps |-> Some("500000"), time |-> Some("20"),
     pv |-> Some("e4 e5 Nf3")]

\* C2: the six-line example yields exactly one record, with engine
\* TestEngine, the four leading fields of the starting position, depth 10,
\* score 25, no mate, nodes 12345, nps 500000, time 20 and pv "e4 e5 Nf3".
C2_ExampleYieldsRecord == trace = Example => results = <<ExampleRecord>>

C2_Witness == trace = Example /\ Len(results) = 1

\* C3: a step leaves the records there were in place, adds at most one, adds
\* one exactly when it reads a best-move line with a fingerprint stored, and
\* the record added holds the values of that moment.
C3_Step ==
    /\ Len(results') >= Len(results)
    /\ SubSeq(results', 1, Len(results)) = results
    /\ Len(results') <= Len(results) + 1
    /\ (Len(results') = Len(results) + 1)
          <=> (Len(trace') = Len(trace) + 1 /\ Kind(trace'[Len(trace')]) = "bestmove"
               /\ fen.some)
    /\ Len(results') = Len(results) + 1 =>
          results'[Len(results')] =
              [engine |-> engine, fen |-> fen.v, ply |-> ply, score |-> score,
               mate |-> mate, nodes |-> nodes, nps |-> nps, time |-> time, pv |-> pv]

C3_AppendOnly == [][C3_Step]_vars

\* Two records of two different best-move lines, in the order of the lines.
C3_Witness ==
    /\ Len(results) = 2
    /\ results[1].ply.some /\ ~results[2].ply.some
    /\ KindAt(Len(trace)) = "bestmove"

\* C4: after a new-game line the seven accumulator fields and the fingerprint
\* are unknown and the board is the starting position; and the record of a
\* best-move line that follows a new-game line and a set-position command
\* directly has its seven optional fields absent.
C4_NewGameResets ==
    /\ (Len(trace) >= 1 /\ KindAt(Len(trace)) = "newgame") =>
          /\ ~ply.some /\ ~score.some /\ ~mate.some /\ ~nodes.some
          /\ ~nps.some /\ ~time.some /\ ~pv.some
          /\ ~fen.some
          /\ board = ChessDefault
    /\ (/\ Len(trace) >= 3
        /\ KindAt(Len(trace) - 2) = "newgame"
        /\ KindAt(Len(trace) - 1) = "position" /\ FormedPosition(trace[Len(trace) - 1])
        /\ KindAt(Len(trace)) = "bestmove") =>
          (Len(results) >= 1 /\ AllAbsent(LastRecord))

\* Search-info values and a moved board, then new-game, set-position,
\* best-move: the record emitted.
C4_Witness ==
    /\ Len(trace) = 4
    /\ KindAt(1) = "info" /\ KindAt(2) = "newgame"
    /\ KindAt(3) = "position" /\ KindAt(4) = "bestmove"
    /\ Len(results) = 1

\* The name the last identify-engine line read gave ("" when none was read).
LastEngineName ==
    LET names == {j \in 1 .. Len(trace) : KindAt(j) = "idname"}
    IN  IF names = {} THEN ""
        ELSE SubSeq(trace[CHOOSE j \in names : \A k \in names : k <= j],
                    Len("id name ") + 1,
                    Len(trace[CHOOSE j \in names : \A k \in names : k <= j]))

\* C5 as stated: right after a new-game line the engine name is empty.
C5_NewGameClearsEngine ==
    (Len(trace) >= 1 /\ KindAt(Len(trace)) = "newgame") => engine = ""

\* C5 amended: a new-game line leaves the engine name as it was: the name is
\* the one the last identify-engine line gave, whatever new-game lines
\* followed it, and a record carries that name.
C5_EngineNamePersists ==
    /\ engine = LastEngineName
    /\ (Len(trace) >= 1 /\ KindAt(Len(trace)) = "bestmove" /\ fen.some) =>
          LastRecord.engine = LastEngineName

\* A name given, then new-game, set-position, best-move: the record carries
\* the name.
C5_Witness ==
    /\ Len(trace) = 4
    /\ KindAt(1) = "idname" /\ KindAt(2) = "newgame"
    /\ KindAt(3) = "position" /\ KindAt(4) = "bestmove"
    /\ Len(results) = 1 /\ results[1].engine = "TestEngine"

\* The board after the first n tokens, each resolved on the board the
\* tokens before it lead to (they all resolve).
RECURSIVE BoardAfter(_, _, _)
BoardAfter(b, tokens, n) ==
    IF n = 0 THEN b
    ELSE play_unchecked(BoardAfter(b, tokens, n - 1),
                        parse_uci_move(tokens[n], BoardAfter(b, tokens, n - 1)).v)

\* The index of the first token, from i on, that does not resolve on the
\* board the tokens before it lead to (Len(tokens) + 1: they all resolve).
RECURSIVE FirstUnresolvable(_, _, _)
FirstUnresolvable(b, tokens, i) ==
    IF i > Len(tokens) THEN i
    ELSE IF parse_uci_move(tokens[i], BoardAfter(b, tokens, i - 1)).some
    THEN FirstUnresolvable(b, tokens, i + 1)
    ELSE i

\* C6 as stated: apply_moves stops at the first token that does not resolve:
\* its result is the board advanced by exactly the tokens before that one.
C6_ApplyMovesHaltsAtFirstUnresolvable ==
    call.fn = "apply_moves" =>
        call.ret = BoardAfter(call.board, split_whitespace(call.text),
                              FirstUnresolvable(call.board, split_whitespace(call.text), 1) - 1)

\* The field of the loop, and of a record, that a key of a search-info line
\* is stored in.
FieldOf(key) ==
    IF key = "depth" THEN ply ELSE IF key = "cp" THEN score
    ELSE IF key = "mate" THEN mate ELSE IF key = "nodes" THEN nodes
    ELSE IF key = "nps" THEN nps ELSE time
RecordField(r, key) ==
    IF key = "depth" THEN r.ply ELSE IF key = "cp" THEN r.score
    ELSE IF key = "mate" THEN r.mate ELSE IF key = "nodes" THEN r.nodes
    ELSE IF key = "nps" THEN r.nps ELSE r.time

\* The places of a key among the tokens of a line.
Occurrences(l, key) ==
    {i \in 1 .. Len(split_whitespace(l)) : split_whitespace(l)[i] = key}

\* C7 as stated: a step that reads a search-info line in which a key is
\* followed only by a missing or unparsable token leaves the key's field as
\* it was.
C7_Step ==
    (Len(trace') = Len(trace) + 1 /\ Kind(trace'[Len(trace')]) = "info") =>
        \A key \in InfoKeys :
            (/\ Occurrences(trace'[Len(trace')], key) # {}
             /\ \A i \in Occurrences(trace'[Len(trace')], key) :
                   ~ValueAfter(split_whitespace(trace'[Len(trace')]), i, key).some)
            => FieldOf(key)' = FieldOf(key)

C7_UnparsableValueKeepsField == [][C7_Step]_vars

\* The index of the last flush (best-move or new-game line) before line n
\* (0: none), and the search-info lines after it.
LastFlushBefore(n) ==
    LET flushes == {j \in 1 .. n - 1 : KindAt(j) \in {"bestmove", "newgame"}}
    IN  IF flushes = {} THEN 0 ELSE CHOOSE j \in flushes : \A k \in flushes : k <= j

\* The occurrences <<line, place>> of a key in the search-info lines between
\* the last flush and line n, and the last of them.
SearchOccurrences(n, key) ==
    UNION {{<<j, i>> : i \in Occurrences(trace[j], key)} :
              j \in {k \in LastFlushBefore(n) + 1 .. n - 1 : KindAt(k) = "info"}}
LastOccurrence(n, key) ==
    CHOOSE o \in SearchOccurrences(n, key) :
        \A p \in SearchOccurrences(n, key) :
            p[1] < o[1] \/ (p[1] = o[1] /\ p[2] <= o[2])
ValueAt(o, key) == ValueAfter(split_whitespace(trace[o[1]]), o[2], key)

\* C8: the record a best-move line emits holds, for each key whose last
\* occurrence in the search-info lines since the last flush has a parsable
\* value, that value: the later line wins, the later place in a line wins,
\* and a key the later lines do not name keeps the value of an earlier line.
C8_LastWriteWins ==
    (Len(trace) >= 1 /\ KindAt(Len(trace)) = "bestmove" /\ fen.some) =>
        \A key \in InfoKeys :
            (/\ SearchOccurrences(Len(trace), key) # {}
             /\ ValueAt(LastOccurrence(Len(trace), key), key).some)
            => RecordField(LastRecord, key) = ValueAt(LastOccurrence(Len(trace), key), key)

\* Two search-info lines of one search: depth from the later line and its
\* later place, score and nodes from the earlier line, mate from the later.
C8_Witness ==
    /\ trace = <<"position startpos", "info depth 10 score cp 25 nodes 12345",
                 "info depth 12 score mate -3 depth 14", "bestmove e2e4">>
    /\ Len(results) = 1
    /\ results[1].ply = Some("14") /\ results[1].score = Some("25")
    /\ results[1].mate = Some("-3") /\ results[1].nodes = Some("12345")

\* The notation of the first n tokens, each rendered on the board before its
\* move.
ExpectedSan(b, tokens, n) ==
    [i \in 1 .. n |->
        SanText(BoardAfter(b, tokens, i - 1),
                parse_uci_move(tokens[i], BoardAfter(b, tokens, i - 1)).v)]

\* C9: convert_pv_to_san returns the notation of the tokens before the first
\* unresolvable one, each rendered on the board before its move, as many
\* items as there are such tokens, and "" when the first token is
\* unresolvable.
C9_PvIsLongestResolvablePrefix ==
    call.fn = "convert_pv_to_san" =>
        LET tokens == split_whitespace(call.text)
            k == FirstUnresolvable(call.board, tokens, 1)
        IN  /\ call.ret = join(ExpectedSan(call.board, tokens, k - 1))
            /\ Len(split_whitespace(call.ret)) = k - 1
            /\ k = 1 => call.ret = ""

\* A resolvable token, an unresolvable one, and one that would resolve on
\* the board reached: only the first is rendered.
C9_Witness ==
    /\ call.fn = "convert_pv_to_san"
    /\ call.board = ChessDefault
    /\ call.text = "e2e4 e2e5 e7e5"
    /\ call.ret = "e4"

\* A token's promotion letter, and the role it names.
HasPromotionLetter(uci) == Len(uci) = 5 /\ Ch(uci, 5) \in {"q", "r", "b", "n"}
LetterRole(c) == [q |-> "Q", r |-> "R", b |-> "B", n |-> "N"][c]

\* C10: a move parse_uci_move returns has the token's origin and
\* destination, the promotion piece of the token's letter when it has one and
\* no promotion when it has none; a token without a letter finds no match
\* where promotions with its origin and destination are legal.
C10_PromotionMatchesToken ==
    call.fn = "parse_uci_move" =>
        /\ call.ret.some =>
              /\ SquareName(call.ret.v.from) = SubSeq(call.text, 1, 2)
              /\ SquareName(call.ret.v.to) = SubSeq(call.text, 3, 4)
              /\ HasPromotionLetter(call.text) =>
                    call.ret.v.promotion = LetterRole(Ch(call.text, 5))
              /\ ~HasPromotionLetter(call.text) => call.ret.v.promotion = ""
        /\ (/\ ~HasPromotionLetter(call.text)
            /\ Len(call.text) >= 4
            /\ \E m \in legal_moves(call.board) :
                  /\ SquareName(m.from) = SubSeq(call.text, 1, 2)
                  /\ SquareName(m.to) = SubSeq(call.text, 3, 4)
                  /\ m.promotion # "")
           => ~call.ret.some

\* A knight promotion asked for and returned, where the queen, rook and
\* bishop promotions have the same squares.
C10_Witness ==
    /\ call.fn = "parse_uci_move"
    /\ call.text = "a7a8n"
    /\ call.ret.some /\ call.ret.v.promotion = "N"
    /\ Cardinality({m \in legal_moves(call.board) : m.from = 48 /\ m.to = 56}) = 4

\* The legal moves of a board that match a token: its origin, its
\* destination and its promotion selection (none without a letter).
TokenMatches(b, uci) ==
    IF Len(uci) < 4 THEN {}
    ELSE {m \in legal_moves(b) :
            /\ SquareName(m.from) = SubSeq(uci, 1, 2)
            /\ SquareName(m.to) = SubSeq(uci, 3, 4)
            /\ m.promotion = (IF HasPromotionLetter(uci)
                              THEN LetterRole(Ch(uci, 5)) ELSE "")}

\* C11: parse_uci_move returns a move only when exactly one legal move
\* matches the token, and then that move; with no matching move, or more
\* than one, the result is no match.
C11_ReturnsTheOnlyMatch ==
    call.fn = "parse_uci_move" =>
        /\ call.ret.some => TokenMatches(call.board, call.text) = {call.ret.v}
        /\ Cardinality(TokenMatches(call.board, call.text)) # 1 => ~call.ret.some

\* A token whose origin has legal moves, none of them to its destination:
\* no match.
C11_Witness ==
    /\ call.fn = "parse_uci_move"
    /\ call.board = ChessDefault
    /\ call.text = "e2e5"
    /\ ~call.ret.some
    /\ Cardinality({m \in legal_moves(call.board) : SquareName(m.from) = "e2"}) = 2

(***************************************************************************)
(* Transcripts of set-position commands: descriptions that do not parse,   *)
(* that parse to no valid position, and that yield a position, with and    *)
(* without move lists.                                                     *)
(***************************************************************************)
\* A description that parses and yields no valid position (no kings).
KinglessDescription == "8/8/8/8/8/8/8/8 w - - 0 1"

PositionLines ==
    {"position startpos moves e2e4",
     "position fen " \o BadDescription,
     "position fen " \o BadDescription \o " moves e7e5",
     "position fen " \o KinglessDescription \o " moves e7e5",
     "position fen " \o PromotionDescription \o " moves a7a8q",
     "bestmove e2e4"}

NextPosition ==
    \/ \E l \in PositionLines : Read(l, MaxLines) /\ Position(l)
    \/ \E l \in PositionLines : Read(l, MaxLines) /\ BestMove(l)

SpecPosition == Init /\ [][NextPosition]_vars

\* A step that reads a line, and the line it reads.
ReadsLine == Len(trace') = Len(trace) + 1
LineRead == trace'[Len(trace')]

\* A set-position command of the explicit form whose description does not
\* yield a position.
FailedDescription(l) ==
    starts_with(l, "position fen ") /\ ~PositionFromFen(DescriptionOf(l)).some

\* The move list of a "position fen ... moves ..." line.
MoveListOf(l) == SubSeq(l, find(l, " moves ") + 8, Len(l))

\* C12: a step that reads a set-position command of the explicit form whose
\* description fails to parse, or to yield a valid position, leaves the
\* Board as it was, with or without a move list.
C12_Step ==
    ReadsLine =>
        LET l == LineRead
        IN  FailedDescription(l) => board' = board

C12_FailedDescriptionKeepsBoard == [][C12_Step]_vars

\* Descriptions that do not parse, without and with a move list, and one
\* that parses to no valid position, read after a move was played: the
\* Board is the one the first line left.
C12_Witness ==
    /\ trace = <<"position startpos moves e2e4",
                 "position fen " \o BadDescription,
                 "position fen " \o BadDescription \o " moves e7e5",
                 "position fen " \o KinglessDescription \o " moves e7e5">>
    /\ ParseFen(KinglessDescription).some
    /\ board = apply_moves(ChessDefault, "e2e4")

\* C13 as stated: the move list after a description that fails is applied
\* to the Board left by earlier lines.
C13_Step ==
    ReadsLine =>
        LET l == LineRead
        IN  (FailedDescription(l) /\ find(l, " moves ") >= 0) =>
                board' = apply_moves(board, MoveListOf(l))

C13_MovesAppliedToStaleBoard == [][C13_Step]_vars

\* C13 amended: the move list after a description that fails is not
\* applied: the Board stays the one left by earlier lines, whether or not
\* its tokens resolve there, and the fingerprint stored is that Board's.
C13_AmendedStep ==
    ReadsLine =>
        LET l == LineRead
        IN  (FailedDescription(l) /\ find(l, " moves ") >= 0) =>
                /\ board' = board
                /\ fen' = Some(trim_fen(FenText(board)))

C13_MovesNotApplied == [][C13_AmendedStep]_vars

\* A move list that resolves on the Board left by the first line, after a
\* description that fails: the Board is still the first line's.
C13_Witness ==
    /\ trace = <<"position startpos moves e2e4",
                 "position fen " \o BadDescription \o " moves e7e5">>
    /\ board = apply_moves(ChessDefault, "e2e4")
    /\ board # apply_moves(board, "e7e5")
    /\ fen = Some("rnbqkbnr/pppppppp/8/8/4P3/8/PPPP1PPP/RNBQKBNR b KQkq -")

\* The fingerprint of a board: the first four fields of its description.
Fingerprint(b) == trim_fen(FenText(b))

\* C14: a step that reads a search-info line, with or without a principal
\* variation, leaves the Board, the stored fingerprint, the engine name and
\* the output document unchanged.
C14_Step ==
    ReadsLine =>
        LET l == LineRead
        IN  Kind(l) = "info" => UNCHANGED <<board, fen, engine, results>>

C14_InfoKeepsBoard == [][C14_Step]_vars

\* A principal variation of two moves converted on the board after e2e4,
\* and the record emitted afterwards: its fingerprint is the board's after
\* e2e4 alone.
C14_Witness ==
    /\ trace = <<"position startpos moves e2e4",
                 "info depth 10 score cp 25 pv e7e5 g1f3", "bestmove e2e4">>
    /\ Len(results) = 1
    /\ results[1].pv = Some("e5 Nf3")
    /\ results[1].fen = "rnbqkbnr/pppppppp/8/8/4P3/8/PPPP1PPP/RNBQKBNR b KQkq -"
    /\ board = apply_moves(ChessDefault, "e2e4")

\* C15: a step that reads a best-move line while a fingerprint is stored
\* emits one record, clears the seven accumulator fields and leaves the
\* Board, the fingerprint and the engine name unchanged; where the line
\* before was a best-move line too, the record emitted has the engine and
\* fingerprint of the record before it and every optional field absent.
C15_Step ==
    ReadsLine =>
        LET l == LineRead
        IN  (Kind(l) = "bestmove" /\ fen.some) =>
                /\ Len(results') = Len(results) + 1
                /\ ply' = None /\ score' = None /\ mate' = None /\ nodes' = None
                /\ nps' = None /\ time' = None /\ pv' = None
                /\ UNCHANGED <<board, fen, engine>>
                /\ (Len(trace) >= 1 /\ KindAt(Len(trace)) = "bestmove") =>
                      /\ Len(results) >= 1
                      /\ results'[Len(results')].engine = results[Len(results)].engine
                      /\ results'[Len(results')].fen = results[Len(results)].fen
                      /\ AllAbsent(results'[Len(results')])

C15_FlushClearsAccumulatorOnly == [][C15_Step]_vars

\* Two best-move lines in a row after a search: two records, the first with
\* the values of the search, the second with none, both with the same
\* fingerprint.
C15_Witness ==
    /\ trace = <<"position startpos moves e2e4",
                 "info depth 10 score cp 25 pv e7e5 g1f3", "bestmove e2e4",
                 "bestmove e2e4">>
    /\ Len(results) = 2
    /\ results[1].ply = Some("10") /\ results[1].pv = Some("e5 Nf3")
    /\ AllAbsent(results[2])
    /\ results[2].fen = results[1].fen /\ results[2].engine = results[1].engine

\* C16: at every line boundary the stored fingerprint is unknown or is the
\* fingerprint of the current Board; so the record a best-move line has just
\* emitted carries the fingerprint of the Board at that line.
C16_FingerprintIsOfBoard ==
    fen.some =>
        LET of_board == Fingerprint(board)
        IN  /\ fen.v = of_board
            /\ (Len(trace) >= 1 /\ KindAt(Len(trace)) = "bestmove") =>
                  /\ Len(results) >= 1
                  /\ LastRecord.fen = of_board

\* A record emitted after a description that failed to parse: its
\* fingerprint is the one of the board the line before had left.
C16_Witness ==
    /\ trace = <<"position startpos moves e2e4",
                 "position fen " \o BadDescription \o " moves e2e4", "bestmove e2e4">>
    /\ Len(results) = 1
    /\ LastRecord.fen = "rnbqkbnr/pppppppp/8/8/4P3/8/PPPP1PPP/RNBQKBNR b KQkq -"
    /\ LastRecord.fen = Fingerprint(board)

\* C17: a step that reads a best-move line while no fingerprint is stored
\* emits nothing, leaves the Board, the fingerprint and the engine name
\* unchanged and clears the seven accumulator fields; and a record emitted
\* by a best-move line with no search-info line since the best-move or
\* new-game line before it, dropped or not, has every optional field absent.
C17_Step ==
    ReadsLine =>
        LET l == LineRead
        IN  /\ (Kind(l) = "bestmove" /\ ~fen.some) =>
                  /\ results' = results
                  /\ UNCHANGED <<board, fen, engine>>
                  /\ ply' = None /\ score' = None /\ mate' = None /\ nodes' = None
                  /\ nps' = None /\ time' = None /\ pv' = None
            /\ (/\ Kind(l) = "bestmove" /\ fen.some
                /\ \A j \in LastFlushBefore(Len(trace) + 1) + 1 .. Len(trace) :
                      KindAt(j) # "info")
               => AllAbsent(results'[Len(results')])

C17_DroppedBestMoveClears == [][C17_Step]_vars

\* Search-info values gathered, a best-move line dropped for want of a
\* fingerprint, then a position and a best-move line: one record, with none
\* of the values.
C17_Witness ==
    /\ trace = <<"info depth 10 score cp 25 pv e7e5 g1f3", "bestmove e2e4",
                 "position startpos moves e2e4", "bestmove e2e4">>
    /\ Len(results) = 1
    /\ AllAbsent(results[1])

(***************************************************************************)
(* ucitap.rs: the tee utility.                                             *)
(*                                                                         *)
(* fn main spawns the engine and two threads and joins them.  stdin is the *)
(* pipe from the caller, engine_stdin and engine_stdout the pipes to and   *)
(* from the engine, stdout the chunks handed to the caller, logfile the    *)
(* bytes appended to the log, logfile_lock the holder of its Mutex.  A     *)
(* read returns one chunk; a chunk has ChunkLen bytes and write_all on the *)
(* log file appends them one write at a time.  caller and child are the    *)
(* environment: the caller writes at most MaxChunks chunks and may close   *)
(* its end, the engine reads what it is sent, writes at most MaxOut chunks *)
(* and may exit at any time, which closes its ends of both pipes.          *)
(***************************************************************************)
MaxChunks == 2
MaxOut == 2
ChunkLen == 2

json_vars == <<locals, trace, call>>

\* The caller writes a chunk to the tee's standard input.
CallerWrite ==
    /\ ~caller.closed /\ caller.sent < MaxChunks
    /\ caller' = [caller EXCEPT !.sent = @ + 1]
    /\ stdin' = Append(stdin, [dir |-> "in", k |-> caller.sent + 1, after |-> 0])
    /\ UNCHANGED <<engine_stdin, child, engine_stdout, stdout, logfile, logfile_lock,
                   stdin_thread, stdout_thread, main_pc, json_vars>>

\* The caller closes the tee's standard input.
CallerClose ==
    /\ ~caller.closed
    /\ caller' = [caller EXCEPT !.closed = TRUE]
    /\ UNCHANGED <<stdin, engine_stdin, child, engine_stdout, stdout, logfile,
                   logfile_lock, stdin_thread, stdout_thread, main_pc, json_vars>>

\* The engine reads a chunk from its standard input.
EngineRead ==
    /\ ~child.exited /\ engine_stdin # <<>>
    /\ engine_stdin' = Tail(engine_stdin)
    /\ child' = [child EXCEPT !.received = @ + 1]
    /\ UNCHANGED <<caller, stdin, engine_stdout, stdout, logfile, logfile_lock,
                   stdin_thread, stdout_thread, main_pc, json_vars>>

\* The engine writes a chunk to its standard output.
EngineWrite ==
    /\ ~child.exited /\ child.produced < MaxOut
    /\ child' = [child EXCEPT !.produced = @ + 1]
    /\ engine_stdout' = Append(engine_stdout,
                               [dir |-> "out", k |-> child.produced + 1,
                                after |-> child.received])
    /\ UNCHANGED <<caller, stdin, engine_stdin, stdout, logfile, logfile_lock,
                   stdin_thread, stdout_thread, main_pc, json_vars>>

\* The engine exits: its standard output is at end of file once drained and
\* a write to its standard input fails.
EngineExit ==
    /\ ~child.exited
    /\ child' = [child EXCEPT !.exited = TRUE]
    /\ UNCHANGED <<caller, stdin, engine_stdin, engine_stdout, stdout, logfile,
                   logfile_lock, stdin_thread, stdout_thread, main_pc, json_vars>>

\* stdin_thread: stdin.read(&mut buf).  It returns a chunk, or Ok(0) at end
\* of file (break), and blocks while there is neither.
StdinThreadRead ==
    /\ stdin_thread.pc = "read"
    /\ IF stdin # <<>>
       THEN /\ stdin_thread' = [pc |-> "write", buf |-> Head(stdin), logged |-> 0]
            /\ stdin' = Tail(stdin)
       ELSE /\ caller.closed
            /\ stdin_thread' = [stdin_thread EXCEPT !.pc = "done"]
            /\ UNCHANGED stdin
    /\ UNCHANGED <<caller, engine_stdin, child, engine_stdout, stdout, logfile,
                   logfile_lock, stdout_thread, main_pc, json_vars>>

\* stdin_thread: engine_stdin.write_all(&buf[..n]) (break on an error) and
\* flush.
StdinThreadWrite ==
    /\ stdin_thread.pc = "write"
    /\ IF child.exited
       THEN /\ stdin_thread' = [stdin_thread EXCEPT !.pc = "done"]
            /\ UNCHANGED engine_stdin
       ELSE /\ engine_stdin' = Append(engine_stdin, stdin_thread.buf)
            /\ stdin_thread' = [stdin_thread EXCEPT !.pc = "lock"]
    /\ UNCHANGED <<caller, stdin, child, engine_stdout, stdout, logfile, logfile_lock,
                   stdout_thread, main_pc, json_vars>>

\* stdin_thread entering its log block without regard to the holder of the
\* lock (mutant for C18).
StdinThreadLockNoMutex ==
    /\ stdin_thread.pc = "lock"
    /\ logfile_lock' = "stdin_thread"
    /\ stdin_thread' = [stdin_thread EXCEPT !.pc = "log"]
    /\ UNCHANGED <<caller, stdin, engine_stdin, child, engine_stdout, stdout, logfile,
                   stdout_thread, main_pc, json_vars>>

\* stdin_thread: log_in.lock()
StdinThreadLock ==
    /\ stdin_thread.pc = "lock"
    /\ logfile_lock = "none"
    /\ logfile_lock' = "stdin_thread"
    /\ stdin_thread' = [stdin_thread EXCEPT !.pc = "log"]
    /\ UNCHANGED <<caller, stdin, engine_stdin, child, engine_stdout, stdout, logfile,
                   stdout_thread, main_pc, json_vars>>

\* stdin_thread: log.write_all(&buf[..n]), one write of it.
StdinThreadLog ==
    /\ stdin_thread.pc = "log"
    /\ stdin_thread.logged < ChunkLen
    /\ logfile' = Append(logfile, [chunk |-> stdin_thread.buf,
                                   i |-> stdin_thread.logged + 1])
    /\ stdin_thread' = [stdin_thread EXCEPT !.logged = @ + 1]
    /\ UNCHANGED <<caller, stdin, engine_stdin, child, engine_stdout, stdout,
                   logfile_lock, stdout_thread, main_pc, json_vars>>

\* stdin_thread: log.flush() and the end of the block, where the guard is
\* dropped.
StdinThreadUnlock ==
    /\ stdin_thread.pc = "log"
    /\ stdin_thread.logged = ChunkLen
    /\ logfile_lock' = "none"
    /\ stdin_thread' = [stdin_thread EXCEPT !.pc = "read", !.logged = 0]
    /\ UNCHANGED <<caller, stdin, engine_stdin, child, engine_stdout, stdout, logfile,
                   stdout_thread, main_pc, json_vars>>

\* stdout_thread: engine_stdout.read(&mut buf)
StdoutThreadRead ==
    /\ stdout_thread.pc = "read"
    /\ IF engine_stdout # <<>>
       THEN /\ stdout_thread' = [pc |-> "write", buf |-> Head(engine_stdout), logged |-> 0]
            /\ engine_stdout' = Tail(engine_stdout)
       ELSE /\ child.exited
            /\ stdout_thread' = [stdout_thread EXCEPT !.pc = "done"]
            /\ UNCHANGED engine_stdout
    /\ UNCHANGED <<caller, stdin, engine_stdin, child, stdout, logfile, logfile_lock,
                   stdin_thread, main_pc, json_vars>>

\* stdout_thread: stdout.write_all(&buf[..n]) and flush, errors ignored.
StdoutThreadWrite ==
    /\ stdout_thread.pc = "write"
    /\ stdout' = Append(stdout, stdout_thread.buf)
    /\ stdout_thread' = [stdout_thread EXCEPT !.pc = "lock"]
    /\ UNCHANGED <<caller, stdin, engine_stdin, child, engine_stdout, logfile,
                   logfile_lock, stdin_thread, main_pc, json_vars>>

\* stdout_thread: log_out.lock()
StdoutThreadLock ==
    /\ stdout_thread.pc = "lock"
    /\ logfile_lock = "none"
    /\ logfile_lock' = "stdout_thread"
    /\ stdout_thread' = [stdout_thread EXCEPT !.pc = "log"]
    /\ UNCHANGED <<caller, stdin, engine_stdin, child, engine_stdout, stdout, logfile,
                   stdin_thread, main_pc, json_vars>>

\* stdout_thread: log.write_all(&buf[..n]), one write of it.
StdoutThreadLog ==
    /\ stdout_thread.pc = "log"
    /\ stdout_thread.logged < ChunkLen
    /\ logfile' = Append(logfile, [chunk |-> stdout_thread.buf,
                                   i |-> stdout_thread.logged + 1])
    /\ stdout_thread' = [stdout_thread EXCEPT !.logged = @ + 1]
    /\ UNCHANGED <<caller, stdin, engine_stdin, child, engine_stdout, stdout,
                   logfile_lock, stdin_thread, main_pc, json_vars>>

\* stdout_thread: log.flush() and the end of the block.
StdoutThreadUnlock ==
    /\ stdout_thread.pc = "log"
    /\ stdout_thread.logged = ChunkLen
    /\ logfile_lock' = "none"
    /\ stdout_thread' = [stdout_thread EXCEPT !.pc = "read", !.logged = 0]
    /\ UNCHANGED <<caller, stdin, engine_stdin, child, engine_stdout, stdout, logfile,
                   stdin_thread, main_pc, json_vars>>

\* main: stdin_thread.join()
MainJoinStdin ==
    /\ main_pc = "join_stdin"
    /\ stdin_thread.pc = "done"
    /\ main_pc' = "join_stdout"
    /\ UNCHANGED <<caller, stdin, engine_stdin, child, engine_stdout, stdout, logfile,
                   logfile_lock, stdin_thread, stdout_thread, json_vars>>

\* main: stdout_thread.join()
MainJoinStdout ==
    /\ main_pc = "join_stdout"
    /\ stdout_thread.pc = "done"
    /\ main_pc' = "wait"
    /\ UNCHANGED <<caller, stdin, engine_stdin, child, engine_stdout, stdout, logfile,
                   logfile_lock, stdin_thread, stdout_thread, json_vars>>

\* main: child.wait(), and the end of main.
MainWait ==
    /\ main_pc = "wait"
    /\ child.exited
    /\ main_pc' = "exit"
    /\ UNCHANGED <<caller, stdin, engine_stdin, child, engine_stdout, stdout, logfile,
                   logfile_lock, stdin_thread, stdout_thread, json_vars>>

StdinThread ==
    \/ StdinThreadRead \/ StdinThreadWrite \/ StdinThreadLock
    \/ StdinThreadLog \/ StdinThreadUnlock
StdoutThread ==
    \/ StdoutThreadRead \/ StdoutThreadWrite \/ StdoutThreadLock
    \/ StdoutThreadLog \/ StdoutThreadUnlock
Main == MainJoinStdin \/ MainJoinStdout \/ MainWait

NextTee ==
    \/ CallerWrite \/ CallerClose
    \/ EngineRead \/ EngineWrite \/ EngineExit
    \/ StdinThreadRead \/ StdinThreadWrite \/ StdinThreadLock
    \/ StdinThreadLog \/ StdinThreadUnlock
    \/ StdoutThreadRead \/ StdoutThreadWrite \/ StdoutThreadLock
    \/ StdoutThreadLog \/ StdoutThreadUnlock
    \/ MainJoinStdin \/ MainJoinStdout \/ MainWait

SpecTee == Init /\ [][NextTee]_vars

\* The tee with its three threads scheduled: a thread that can take a step
\* takes one.  Nothing is assumed of the caller and of the engine.
SpecTeeLive ==
    /\ Init /\ [][NextTee]_vars
    /\ WF_vars(StdinThread) /\ WF_vars(StdoutThread) /\ WF_vars(Main)

\* The chunks forwarded to the engine so far (the engine has received them
\* or they wait in its pipe), and the chunks read from the engine so far.
Forwarded == child.received + Len(engine_stdin)
ReadFromEngine == stdout_thread.buf.k

InChunk(k) == [dir |-> "in", k |-> k, after |-> 0]
LogPlaces == 1 .. Len(logfile)

\* A thread is between taking a chunk and having written it whole to the
\* log.
Logging(thread) == thread.pc \in {"lock", "log"}

\* The log holds byte i of every chunk of the direction numbered k, once.
LoggedWhole(dir, k) ==
    \A i \in 1 .. ChunkLen :
        Cardinality({p \in LogPlaces :
                        /\ logfile[p].chunk.dir = dir /\ logfile[p].chunk.k = k
                        /\ logfile[p].i = i}) = 1

\* C18: under every interleaving the log is a merge of the two directions
\* chunk by chunk: the bytes of a chunk lie together and in order, no byte
\* is in the log twice, the chunks of one direction lie in the order they
\* were read, and every chunk forwarded to the engine or read from the
\* engine is in the log whole, once, as soon as its thread has left its log
\* block.
C18_LogIsMergeOfChunks ==
    /\ \A p \in LogPlaces :
          logfile[p].i > 1 =>
              p > 1 /\ logfile[p - 1] = [chunk |-> logfile[p].chunk, i |-> logfile[p].i - 1]
    /\ \A p \in LogPlaces :
          (logfile[p].i < ChunkLen /\ p < Len(logfile)) =>
              logfile[p + 1] = [chunk |-> logfile[p].chunk, i |-> logfile[p].i + 1]
    /\ \A p, q \in LogPlaces : logfile[p] = logfile[q] => p = q
    /\ \A p, q \in LogPlaces :
          (p < q /\ logfile[p].chunk.dir = logfile[q].chunk.dir) =>
              logfile[p].chunk.k <= logfile[q].chunk.k
    /\ \A p \in LogPlaces :
          /\ logfile[p].chunk.dir = "in" => logfile[p].chunk.k <= Forwarded
          /\ logfile[p].chunk.dir = "out" => logfile[p].chunk.k <= ReadFromEngine
    /\ \A k \in 1 .. Forwarded :
          (k < Forwarded \/ ~Logging(stdin_thread)) => LoggedWhole("in", k)
    /\ \A k \in 1 .. ReadFromEngine :
          (k < ReadFromEngine \/ stdout_thread.pc \in {"read", "done"}) =>
              LoggedWhole("out", k)

\* Both threads at rest with two chunks of each direction in the log, an
\* engine chunk between the caller's two; the other thread was waiting for
\* the lock while a chunk was written.
C18_Witness ==
    /\ ~Logging(stdin_thread) /\ ~Logging(stdout_thread)
    /\ Forwarded = 2 /\ Len(stdout) = 2
    /\ Len(logfile) = 8
    /\ logfile[1].chunk.dir = "in" /\ logfile[3].chunk.dir = "out"
    /\ logfile[5].chunk.dir = "in" /\ logfile[7].chunk.dir = "out"

\* C19 as stated: a chunk forwarded to the engine is in the log, whole,
\* before any chunk the engine wrote after it had received that chunk.
C19_LogOrderedByOccurrence ==
    \A p \in LogPlaces :
        logfile[p].chunk.dir = "out" =>
            \A k \in 1 .. logfile[p].chunk.after :
                \E q \in 1 .. p - 1 : logfile[q] = [chunk |-> InChunk(k), i |-> ChunkLen]

\* The engine has exited, and the tee has come to its end.
EngineGone == child.exited
TeeTerminated ==
    main_pc = "exit" /\ stdin_thread.pc = "done" /\ stdout_thread.pc = "done"

\* C20 as stated: once the engine has exited the tee eventually terminates:
\* both threads finish, both joins return and the child is waited on.
C20_TerminatesAfterEngineExit == EngineGone ~> TeeTerminated

====
